---- MODULE Spec2Model ----
(***************************************************************************)
(* Model of src/src/compendium.ts: class Compendium, the persistence and   *)
(* synchronisation layer over the bot api client and localStorage.         *)
(*                                                                         *)
(* Optional values (T | null, T | undefined) are sequences of length at    *)
(* most one: <<>> is null/undefined, <<v>> is the value v.                 *)
(* Time is counted in seconds (Date.now() / 1000).                         *)
(* stopped records that shutdown() has returned and initialize() has not   *)
(* been called since; loggedOut that logout() has returned and neither     *)
(* connect() nor initialize() has been called since. stack holds the       *)
(* handlers that are suspended inside an emit while a listener runs.       *)
(***************************************************************************)
EXTENDS Integers, Sequences, FiniteSets, TLC

VARIABLES ident, lastRefresh, lastTokenRefresh, syncData, timer, selectedAlt,
          storage, now, intervals, nextHandle, inflight, clockSteps,
          apiCalls, obs, stopped, loggedOut, stack

vars == <<ident, lastRefresh, lastTokenRefresh, syncData, timer, selectedAlt,
          storage, now, intervals, nextHandle, inflight, clockSteps,
          apiCalls, obs, stopped, loggedOut, stack>>

(* ------------------------------ bounds --------------------------------- *)
MaxInFlight == 2

MaxClockSteps == 1

MaxCalls == 2

(* ----------------------------- constants ------------------------------- *)
(* 5 * 60 * 1000 ms and 7776000000 ms, in seconds. *)
REFRESH_MS == 300

TOKEN_STALE_MS == 7776000

STORAGE_KEY == "hscompendium"

DefaultAlt == "default"

(* ------------------------------ domains -------------------------------- *)
None == <<>>

Some(v) == <<v>>

Has(o) == o # <<>>

(* The profile names passed to switchAlt. "constructor" is a property     *)
(* every JavaScript object inherits from Object.prototype.                *)
Alts == {"default", "alt1", "constructor"}

ProtoNames == {"constructor"}

(* The techIds passed to setTechLevel: 0 is unknown to the lookup. *)
TechInputs == {0, 1}

Levels == {3}

IdA == [token |-> "tokA", user |-> "userA", guild |-> "guildA"]

IdB == [token |-> "tokB", user |-> "userB", guild |-> "guildA"]

IdC == [token |-> "tokC", user |-> "userC", guild |-> "guildA"]

Identities == {IdA, IdB}

(* The identities the server answers connect and refreshConnection with: *)
(* each answer is chosen anew, so two exchanges may confirm different     *)
(* identities, and none of them is the identity of the saved snapshot.    *)
ServerIdentities == {IdB, IdC}

(* The time that passes between two tasks: long enough for the interval  *)
(* to be due and for a token stamped before it to be stale.               *)
ClockDeltas == {TOKEN_STALE_MS + REFRESH_MS}

NoTech == [t \in {} |-> 0]

EmptyProfile == [ver |-> 1, inSync |-> 1, techLevels |-> NoTech]

DefaultRegistry == [a \in {DefaultAlt} |-> EmptyProfile]

EmptyRegistry == [a \in {} |-> EmptyProfile]

(* The states the server answers a sync call with. *)
ServerStates ==
  { [ver |-> 2, inSync |-> 0, techLevels |-> NoTech],
    [ver |-> 3, inSync |-> 0, techLevels |-> [t \in {2} |-> [level |-> 5, ts |-> 0]]] }

(* module_types.getTechFromIndex: the static lookup techId -> name | "". *)
getTechFromIndex(techId) ==
  IF techId = 1 THEN "tech1" ELSE IF techId = 2 THEN "tech2" ELSE ""

(* --------------------------- localStorage ------------------------------ *)
(* A stored string is its length class together with what JSON.parse      *)
(* makes of it: parses = FALSE when JSON.parse throws, else val is the     *)
(* parsed object, a record whose fields are the JSON object's keys.        *)
JsonText(v) == [empty |-> FALSE, parses |-> TRUE, val |-> v]

EmptyText == [empty |-> TRUE, parses |-> FALSE, val |-> [x \in {} |-> 0]]

GarbageText == [empty |-> FALSE, parses |-> FALSE, val |-> [x \in {} |-> 0]]

NoIdentText == JsonText([refresh |-> 7, tokenRefresh |-> 7])

(* A JSON value that is falsy in JavaScript: null, false, 0 or "". *)
FalsyJson == [json |-> "falsy"]

FalsyIdentText == JsonText([ident |-> FalsyJson, refresh |-> 7])

(* obj[name] of a parsed JSON object: undefined when the key is missing. *)
Field(obj, name) == IF name \in DOMAIN obj THEN Some(obj[name]) ELSE None

(* The truthiness test of an optional JSON value: if (stored.ident). *)
Truthy(o) == Has(o) /\ o[1] # FalsyJson

(* a ?? b *)
Coalesce(o, d) == IF Has(o) THEN o[1] ELSE d

(* JSON.stringify(data) of writeStorage's StorageData. *)
Stringify(id, sd, lr, ltr) ==
  JsonText([ident |-> id,
            userData |-> Coalesce(sd, DefaultRegistry),
            refresh |-> lr,
            tokenRefresh |-> ltr])

(* ------------------------- the object's state -------------------------- *)
(* A remote call awaited by an async method: the arguments it was issued   *)
(* with and the continuation that resumes on its result. For a sync call,  *)
(* attached says whether the registry object captured by the assignment    *)
(* target this.syncData[alt] (evaluated before the await, line 253) is     *)
(* still the object this.syncData refers to; pos is filled in when the    *)
(* call completes, with the place it then had among the pending calls,    *)
(* which are kept in the order they were issued.                          *)
Request(call, origin, alt, mode, sent, token, hasData, arg, h) ==
  [call |-> call, origin |-> origin, alt |-> alt, mode |-> mode, sent |-> sent,
   token |-> token, attached |-> (call = "sync"), hasData |-> hasData,
   arg |-> arg, h |-> h, pos |-> 0]

(* The i-th pending call, as reported when it completes. *)
Completed(q, i) == Some([q[i] EXCEPT !.pos = i])

(* The fields of the Compendium instance, the storage key and the pending  *)
(* calls, with what the running handler has emitted, issued and thrown.    *)
M ==
  [ident |-> ident, lastRefresh |-> lastRefresh,
   lastTokenRefresh |-> lastTokenRefresh, syncData |-> syncData,
   timer |-> timer, selectedAlt |-> selectedAlt, storage |-> storage,
   intervals |-> intervals, inflight |-> inflight, stack |-> stack,
   events |-> <<>>, calls |-> <<>>, thrown |-> FALSE]

Event(name, arg) == [name |-> name, arg |-> arg]

emit(m, name, arg) == [m EXCEPT !.events = Append(@, Event(name, arg))]

(* Every pending sync loses the live registry when this.syncData is       *)
(* reassigned.                                                             *)
Detach(q) == [i \in DOMAIN q |-> [q[i] EXCEPT !.attached = FALSE]]

RemoveAt(q, i) == SubSeq(q, 1, i - 1) \o SubSeq(q, i + 1, Len(q))

(* clearData() that forgets to reset lastRefresh. *)
clearDataKeepsRefresh(m) ==
  [m EXCEPT !.storage = None, !.ident = None, !.lastTokenRefresh = 0,
            !.syncData = None, !.inflight = Detach(@)]

(* clearData(), lines 230-236 *)
clearData(m) ==
  [m EXCEPT !.storage = None, !.ident = None, !.lastTokenRefresh = 0,
            !.lastRefresh = 0, !.syncData = None, !.inflight = Detach(@)]

(* writeStorage(), lines 190-201 *)
writeStorage(m) ==
  IF ~Has(m.ident) THEN m
  ELSE [m EXCEPT !.storage =
          Some(Stringify(m.ident[1], m.syncData, m.lastRefresh, m.lastTokenRefresh))]

(* readStorage() whose catch block reports the failure and leaves the    *)
(* key and the fields as they are.                                        *)
readStorageNoClear(m) ==
  LET raw == m.storage IN
  IF ~Has(raw) \/ raw[1].empty
  THEN clearData(m)
  ELSE IF ~raw[1].parses
  THEN emit(m, "connectfailed", Some("Unexpected token"))
  ELSE IF Truthy(Field(raw[1].val, "ident"))
  THEN [m EXCEPT
          !.ident = Field(raw[1].val, "ident"),
          !.syncData = Some(Coalesce(Field(raw[1].val, "syncData"), DefaultRegistry)),
          !.lastRefresh = Coalesce(Field(raw[1].val, "refresh"), 0),
          !.lastTokenRefresh = Coalesce(Field(raw[1].val, "lastTokenRefresh"), 0),
          !.inflight = Detach(@)]
  ELSE emit(m, "connectfailed", Some("Data corrupt"))

(* readStorage(), lines 203-228; the value returned is the resulting      *)
(* this.ident in every branch. !raw holds of a missing key and of "";     *)
(* line 213 tests the truthiness of stored.ident.                         *)
(* Number() of a stored number is that number.                            *)
readStorage(m) ==
  LET raw == m.storage IN
  IF ~Has(raw) \/ raw[1].empty
  THEN clearData(m)
  ELSE IF ~raw[1].parses
  THEN emit(clearData(m), "connectfailed", Some("Unexpected token"))
  ELSE IF Truthy(Field(raw[1].val, "ident"))
  THEN [m EXCEPT
          !.ident = Field(raw[1].val, "ident"),
          !.syncData = Some(Coalesce(Field(raw[1].val, "syncData"), DefaultRegistry)),
          !.lastRefresh = Coalesce(Field(raw[1].val, "refresh"), 0),
          !.lastTokenRefresh = Coalesce(Field(raw[1].val, "lastTokenRefresh"), 0),
          !.inflight = Detach(@)]
  ELSE emit(clearData(m), "connectfailed", Some("Data corrupt"))

(* The truthiness of reg[alt]: an own profile, or a property inherited    *)
(* from Object.prototype, which is truthy and has no techLevels.           *)
Present(reg, alt) == alt \in DOMAIN reg \/ alt \in ProtoNames

(* reg[alt].techLevels where reg[alt] is truthy: undefined for an          *)
(* inherited property.                                                     *)
TechOf(reg, alt) ==
  IF alt \in DOMAIN reg THEN Some(reg[alt].techLevels) ELSE None

(* getTechLevels(), lines 48-56, on the instance fields. *)
TechLevelsOf(id, sd, alt) ==
  IF Has(id) /\ Has(sd) /\ alt \in DOMAIN sd[1]
  THEN Some(sd[1][alt].techLevels) ELSE None

getTechLevels == TechLevelsOf(ident, syncData, selectedAlt)

(* getUser(), getGuild(), lines 40-46 *)
getUser == IF Has(ident) THEN Some(ident[1].user) ELSE None

getGuild == IF Has(ident) THEN Some(ident[1].guild) ELSE None

(* The null guards of lines 63-68, 176-182 and 244-249: !this.syncData    *)
(* and !this.syncData[alt] test truthiness.                               *)
EnsureProfile(sd, alt) ==
  LET reg == Coalesce(sd, EmptyRegistry) IN
  IF Present(reg, alt) THEN Some(reg) ELSE Some(reg @@ (alt :> EmptyProfile))

(* syncUserData(mode) up to its await, lines 239-253. *)
syncUserDataCall(m, mode, origin, hasData, h) ==
  LET alt == m.selectedAlt IN
  IF ~Has(m.ident) THEN [m EXCEPT !.thrown = TRUE]
  ELSE
    LET sd == EnsureProfile(m.syncData, alt)
        req == Request("sync", origin, alt, mode,
                       Coalesce(TechOf(sd[1], alt), NoTech),
                       m.ident[1].token, hasData, None, h)
    IN [m EXCEPT !.syncData = sd,
                 !.inflight = Append(@, req),
                 !.calls = Append(@, req)]

(* A store that does not address the profile by the requested name and    *)
(* overwrites every profile of the registry.                              *)
ApplyResponseToAll(reg, alt, S) == [a \in DOMAIN reg \cup {alt} |-> S]

(* The store of line 253 into the registry object captured before the     *)
(* await.                                                                  *)
ApplyResponse(reg, alt, S) == (alt :> S) @@ reg

(* syncUserData(mode) from the resolved await to its end, lines 253-264.  *)
(* Reading this.syncData[alt].techLevels of a missing registry or profile *)
(* is a TypeError, caught and rethrown by line 263; of an inherited       *)
(* property it is undefined.                                              *)
syncUserDataResume(m, req, S) ==
  LET m1 == IF req.attached
            THEN [m EXCEPT !.syncData = Some(ApplyResponse(@[1], req.alt, S))]
            ELSE m
      m2 == writeStorage([m1 EXCEPT !.lastRefresh = now])
  IN IF Has(m2.syncData) /\ Present(m2.syncData[1], req.alt)
     THEN emit(m2, "sync", TechOf(m2.syncData[1], req.alt))
     ELSE [m2 EXCEPT !.thrown = TRUE]

(* A catch block that records the attempt as a refresh. *)
syncUserDataCatchStamps(m, req) ==
  [m EXCEPT !.thrown = TRUE, !.lastRefresh = now]

(* syncUserData(mode) when the awaited call rejects, lines 261-264. *)
syncUserDataCatch(m, req) == [m EXCEPT !.thrown = TRUE]

(* setInterval of line 82. *)
armTimer(m, h) ==
  [m EXCEPT !.timer = Some(h),
            !.intervals = @ \cup {[id |-> h, due |-> now + REFRESH_MS]}]

(* What the last step did: the handler that ran, the events it emitted,   *)
(* the remote calls it issued, whether syncUserData (result) and the API  *)
(* call it belongs to (outer) returned, threw or are still awaiting, and  *)
(* for a resumed await the request and the value it resolved with; val   *)
(* is the techId passed to setTechLevel or the value connect returned.    *)
Obs(op, m, result, outer, req, sresp, iresp, val) ==
  [op |-> op, events |-> m.events, calls |-> m.calls, result |-> result,
   outer |-> outer, req |-> req, sresp |-> sresp, iresp |-> iresp,
   val |-> val]

Commit(m, o) ==
  /\ ident' = m.ident
  /\ lastRefresh' = m.lastRefresh
  /\ lastTokenRefresh' = m.lastTokenRefresh
  /\ syncData' = m.syncData
  /\ timer' = m.timer
  /\ selectedAlt' = m.selectedAlt
  /\ storage' = m.storage
  /\ intervals' = m.intervals
  /\ inflight' = m.inflight
  /\ stack' = m.stack
  /\ obs' = o

(* ------------------------------- Init ---------------------------------- *)
StartTime == 2 * TOKEN_STALE_MS

SavedTech == [t \in {1} |-> [level |-> 3, ts |-> StartTime - 20]]

SavedRegistry ==
  [a \in {DefaultAlt} |-> [ver |-> 2, inSync |-> 0, techLevels |-> SavedTech]]

(* What the key can hold when the page loads: nothing, text that is not    *)
(* a snapshot, or a snapshot written by writeStorage in an earlier run.    *)
InitialStorage ==
  { None, Some(EmptyText), Some(GarbageText), Some(NoIdentText),
    Some(FalsyIdentText),
    Some(Stringify(IdA, Some(SavedRegistry), StartTime - 10, StartTime - 10)) }

Idle == [events |-> <<>>, calls |-> <<>>]

(* Field initialisers of lines 23-33 and the constructor. *)
Init ==
  /\ ident = None
  /\ lastRefresh = 0
  /\ lastTokenRefresh = 0
  /\ syncData = None
  /\ timer = None
  /\ selectedAlt = DefaultAlt
  /\ storage \in InitialStorage
  /\ now = StartTime
  /\ intervals = {}
  /\ nextHandle = 1
  /\ inflight = <<>>
  /\ clockSteps = 0
  /\ apiCalls = 0
  /\ obs = Obs("new", Idle, "none", "none", None, None, None, None)
  /\ stopped = FALSE
  /\ loggedOut = FALSE
  /\ stack = <<>>

(* ------------------------------ actions -------------------------------- *)
(* this.emit(name, arg) runs the front end's listeners before it returns, *)
(* and a listener may call the API. A handler that has statements left    *)
(* after an emit is suspended there: its frame is on the stack until the  *)
(* listeners (API calls, each one a step) have returned. at is the        *)
(* statement it resumes at, op the handler, h the interval handle         *)
(* initialize() will arm, events what the handler has emitted so far.     *)
Frame(at, op, h, req, iresp, events) ==
  [at |-> at, op |-> op, h |-> h, req |-> req, iresp |-> iresp,
   events |-> events]

Top == stack[Len(stack)]

Suspend(m, f) == [m EXCEPT !.stack = Append(@, f)]

(* The handler on top of the stack resumes, with what it emitted before. *)
Resume(m) ==
  [m EXCEPT !.stack = SubSeq(@, 1, Len(@) - 1), !.events = Top.events]

Suspended(at) == stack # <<>> /\ Top.at = at

(* The pending calls, the queued continuations and the calls the         *)
(* suspended handlers are about to issue (connect, line 109).             *)
Load ==
  Len(inflight) + Cardinality({k \in DOMAIN stack : stack[k].at = "connect"})

(* The method awaiting syncUserData resumes in a microtask of its own,   *)
(* queued when syncUserData returns ("return") or throws ("rethrow").     *)
IsContinuation(r) == r.call \in {"return", "rethrow"}

(* The queued continuation of the method that issued req: it keeps the   *)
(* method (origin), its locals hasData and h, and the token of the call.  *)
Continuation(req, kind) ==
  [req EXCEPT !.call = kind, !.attached = FALSE, !.alt = "", !.mode = "",
              !.sent = NoTech, !.arg = None]

(* switchAlt drops the promise of syncUserData (line 273); initialize,   *)
(* connect, setTechLevel and tick await it (lines 72, 109, 186, 293).     *)
Awaited(origin) == origin # "switchAlt"

(* The continuations run as microtasks, first queued first run, and only  *)
(* when no handler is running: a call issued after a caller's             *)
(* continuation was queued settles after that continuation has run.       *)
CanRun(i) ==
  /\ stack = <<>>
  /\ \A j \in 1..(i - 1) : ~IsContinuation(inflight[j])

(* No continuation is queued and no handler is running: the task has      *)
(* ended, timers may fire and time may pass.                               *)
TaskEnded ==
  /\ stack = <<>>
  /\ \A j \in DOMAIN inflight : ~IsContinuation(inflight[j])

Outcome(m) == IF m.thrown THEN "throw" ELSE "ok"

(* initialize() up to its first await, to the emit of line 224 or, with   *)
(* no key, to its end; lines 58-72 and 82. Object.keys of line 70 throws  *)
(* a TypeError when the selected name is an inherited property, which has *)
(* no techLevels.                                                          *)
initialize ==
  /\ apiCalls < MaxCalls
  /\ LET h == nextHandle
         m1 == readStorage(M)
     IN IF Has(m1.ident)
        THEN LET alt == m1.selectedAlt
                 sd == EnsureProfile(m1.syncData, alt)
                 tech == TechOf(sd[1], alt)
                 hasData == DOMAIN tech[1] # {}
                 m2 == IF Has(tech)
                       THEN syncUserDataCall([m1 EXCEPT !.syncData = sd],
                                             IF hasData THEN "sync" ELSE "get",
                                             "initialize", hasData, h)
                       ELSE [m1 EXCEPT !.syncData = sd, !.thrown = TRUE]
             IN /\ Has(tech) => Load < MaxInFlight
                /\ Commit(m2, Obs("initialize", m2,
                                  IF m2.thrown THEN "none" ELSE "pending",
                                  IF m2.thrown THEN "throw" ELSE "pending",
                                  None, None, None, None))
        ELSE IF m1.events # <<>>
        THEN LET m2 == Suspend(m1, Frame("initialize", "initialize", h,
                                         None, None, m1.events))
             IN Commit(m2, Obs("initializeEmit", m2, "none", "running",
                               None, None, None, None))
        ELSE LET m2 == armTimer(m1, h)
             IN Commit(m2, Obs("initialize", m2, "none", "ok",
                               None, None, None, None))
  /\ nextHandle' = nextHandle + 1
  /\ UNCHANGED <<now, clockSteps>>
  /\ apiCalls' = apiCalls + 1
  /\ stopped' = FALSE
  /\ loggedOut' = FALSE

(* initialize() after the listeners of connectfailed returned: readStorage *)
(* returns null (line 225), line 59 assigns it, line 82 arms the timer.    *)
initializeAfterEmit ==
  /\ Suspended("initialize")
  /\ LET m1 == armTimer([Resume(M) EXCEPT !.ident = None], Top.h)
     IN Commit(m1, Obs("initialize", m1, "none", "ok", None, None, None, None))
  /\ UNCHANGED <<now, clockSteps, apiCalls, nextHandle, stopped, loggedOut>>

(* shutdown(), lines 86-91 *)
shutdown ==
  /\ apiCalls < MaxCalls
  /\ LET m1 == IF Has(timer)
               THEN [M EXCEPT !.intervals = {t \in @ : t.id # timer[1]},
                              !.timer = None]
               ELSE M
     IN Commit(m1, Obs("shutdown", m1, "none", "ok", None, None, None, None))
  /\ UNCHANGED <<now, clockSteps, nextHandle>>
  /\ apiCalls' = apiCalls + 1
  /\ stopped' = TRUE
  /\ UNCHANGED loggedOut

(* connect(ident) up to its first await, lines 101-103 *)
connect(id) ==
  /\ apiCalls < MaxCalls
  /\ Load < MaxInFlight
  /\ LET m1 == clearData(M)
         req == Request("connect", "connect", "", "", NoTech, id.token,
                        FALSE, Some(id), 0)
         m2 == [m1 EXCEPT !.inflight = Append(@, req), !.calls = Append(@, req)]
     IN Commit(m2, Obs("connect", m2, "none", "pending", None, None, None, None))
  /\ UNCHANGED <<now, clockSteps, nextHandle, stopped>>
  /\ apiCalls' = apiCalls + 1
  /\ loggedOut' = FALSE

(* logout() up to the return of its emit, line 114 *)
logout ==
  /\ apiCalls < MaxCalls
  /\ LET m1 == emit(M, "disconnected", None)
         m2 == Suspend(m1, Frame("logout", "logout", 0, None, None, m1.events))
     IN Commit(m2, Obs("logoutEmit", m2, "none", "running",
                       None, None, None, None))
  /\ UNCHANGED <<now, clockSteps, nextHandle, stopped, loggedOut>>
  /\ apiCalls' = apiCalls + 1

(* logout() after the listeners of disconnected returned, line 115 *)
logoutAfterEmit ==
  /\ Suspended("logout")
  /\ LET m1 == clearData(Resume(M))
     IN Commit(m1, Obs("logout", m1, "none", "ok", None, None, None, None))
  /\ UNCHANGED <<now, clockSteps, apiCalls, nextHandle, stopped>>
  /\ loggedOut' = TRUE

(* switchAlt(alt), lines 271-274: the promise of syncUserData is dropped. *)
switchAlt(alt) ==
  /\ apiCalls < MaxCalls
  /\ Has(ident) => Load < MaxInFlight
  /\ LET m1 == syncUserDataCall([M EXCEPT !.selectedAlt = alt], "get",
                                "switchAlt", FALSE, 0)
     IN Commit(m1, Obs("switchAlt", m1,
                       IF m1.thrown THEN "throw" ELSE "pending", "ok",
                       None, None, None, None))
  /\ UNCHANGED <<now, clockSteps, nextHandle, stopped, loggedOut>>
  /\ apiCalls' = apiCalls + 1

(* The store of line 184. *)
SetLevel(techLevels, techId, level) ==
  (techId :> [level |-> level, ts |-> now]) @@ techLevels

(* The test of line 171 left out. *)
invalidTechNever(techId) == FALSE

(* The test of line 171. *)
invalidTech(techId) == getTechFromIndex(techId) = ""

(* setTechLevel(techId, level) up to its await, lines 167-186; the store  *)
(* of line 184 throws a TypeError when the selected name is an inherited  *)
(* property, which has no techLevels.                                     *)
setTechLevel(techId, level) ==
  /\ apiCalls < MaxCalls
  /\ (Has(ident) /\ ~invalidTech(techId)) => Load < MaxInFlight
  /\ LET alt == selectedAlt
         m1 == IF ~Has(ident) \/ invalidTech(techId)
               THEN [M EXCEPT !.thrown = TRUE]
               ELSE LET sd == EnsureProfile(syncData, alt)
                    IN IF alt \in DOMAIN sd[1]
                       THEN syncUserDataCall(
                              [M EXCEPT !.syncData =
                                 Some([sd[1] EXCEPT ![alt].techLevels =
                                         SetLevel(@, techId, level)])],
                              "sync", "setTechLevel", FALSE, 0)
                       ELSE [M EXCEPT !.syncData = sd, !.thrown = TRUE]
     IN Commit(m1, Obs("setTechLevel", m1,
                       IF m1.calls = <<>> THEN "none" ELSE "pending",
                       IF m1.thrown THEN "throw" ELSE "pending",
                       None, None, None, Some(techId)))
  /\ UNCHANGED <<now, clockSteps, nextHandle, stopped, loggedOut>>
  /\ apiCalls' = apiCalls + 1

(* The interval callback of line 82 running tick(), lines 277-296, up to  *)
(* its await.                                                              *)
tick(t) ==
  /\ now >= t.due
  /\ TaskEnded
  /\ LET fire == Has(ident) /\ now - lastRefresh > REFRESH_MS
         m0 == [M EXCEPT !.intervals =
                  (@ \ {t}) \cup {[id |-> t.id, due |-> now + REFRESH_MS]}]
         m1 == IF fire THEN syncUserDataCall(m0, "sync", "tick", FALSE, 0) ELSE m0
     IN /\ fire => Load < MaxInFlight
        /\ Commit(m1, Obs("tick", m1, IF fire THEN "pending" ELSE "none",
                          IF fire THEN "pending" ELSE "ok",
                          None, None, None, None))
  /\ UNCHANGED <<now, clockSteps, apiCalls, nextHandle, stopped, loggedOut>>

(* syncUserData has ended: the method awaiting it, if any, is queued to   *)
(* resume behind the continuations already queued in the same task.       *)
Settle(m, req) ==
  IF Awaited(req.origin)
  THEN [m EXCEPT !.inflight =
          Append(@, Continuation(req, IF m.thrown THEN "rethrow" ELSE "return"))]
  ELSE m

(* Whether the method that called syncUserData has settled: with nobody   *)
(* awaiting there is none, an awaiting method is still pending.            *)
Caller(req) == IF Awaited(req.origin) THEN "pending" ELSE "none"

(* The awaited client.sync resolves with S: syncUserData runs to its end, *)
(* lines 253-260, returning or throwing (line 263).                        *)
syncResolved(i, S) ==
  /\ inflight[i].call = "sync"
  /\ CanRun(i)
  /\ LET req == inflight[i]
         m1 == syncUserDataResume([M EXCEPT !.inflight = RemoveAt(@, i)], req, S)
         m2 == Settle(m1, req)
     IN Commit(m2, Obs("syncResolved", m2, Outcome(m1), Caller(req),
                       Completed(inflight, i), Some(S), None, None))
  /\ UNCHANGED <<now, clockSteps, apiCalls, nextHandle, stopped, loggedOut>>

(* The awaited client.sync rejects: syncUserData rethrows, lines 261-264. *)
syncRejected(i) ==
  /\ inflight[i].call = "sync"
  /\ CanRun(i)
  /\ LET req == inflight[i]
         m1 == syncUserDataCatch([M EXCEPT !.inflight = RemoveAt(@, i)], req)
         m2 == Settle(m1, req)
     IN Commit(m2, Obs("syncRejected", m2, "throw", Caller(req),
                       Some(req), None, None, None))
  /\ UNCHANGED <<now, clockSteps, apiCalls, nextHandle, stopped, loggedOut>>

(* The method that awaited syncUserData resumes after it returned:        *)
(* initialize at line 73 (this.ident.token of line 74 is a TypeError      *)
(* without an identity; with data it emits connected, line 79), connect   *)
(* at line 110; setTechLevel and tick return.                              *)
syncReturned(i) ==
  /\ inflight[i].call = "return"
  /\ CanRun(i)
  /\ LET req == inflight[i]
         done == Completed(inflight, i)
         m1 == [M EXCEPT !.inflight = RemoveAt(@, i)]
     IN IF req.origin = "initialize" /\ req.hasData
        THEN LET m2 == emit(m1, "connected", m1.ident)
                 m3 == Suspend(m2, Frame("arm", "syncReturned", req.h, done,
                                         None, m2.events))
             IN Commit(m3, Obs("syncReturnedEmit", m3, "none", "running",
                               done, None, None, None))
        ELSE IF req.origin = "initialize" /\ ~Has(m1.ident)
        THEN Commit(m1, Obs("syncReturned", m1, "none", "throw",
                            done, None, None, None))
        ELSE IF req.origin = "initialize"
        THEN LET r == Request("refresh", "initialize", "", "", NoTech,
                              m1.ident[1].token, FALSE, None, req.h)
                 m2 == [m1 EXCEPT !.inflight = Append(@, r),
                                  !.calls = Append(@, r)]
             IN Commit(m2, Obs("syncReturned", m2, "none", "pending",
                               done, None, None, None))
        ELSE Commit(m1, Obs("syncReturned", m1, "none", "ok", done, None, None,
                            IF req.origin = "connect" THEN Some(m1.ident)
                            ELSE None))
  /\ UNCHANGED <<now, clockSteps, apiCalls, nextHandle, stopped, loggedOut>>

(* The method that awaited syncUserData resumes after it threw (lines     *)
(* 242, 263): the await of line 72, 109, 186 or 293 throws and the method *)
(* rejects.                                                                *)
syncThrew(i) ==
  /\ inflight[i].call = "rethrow"
  /\ CanRun(i)
  /\ LET m1 == [M EXCEPT !.inflight = RemoveAt(@, i), !.thrown = TRUE]
     IN Commit(m1, Obs("syncThrew", m1, "none", "throw",
                       Completed(inflight, i), None, None, None))
  /\ UNCHANGED <<now, clockSteps, apiCalls, nextHandle, stopped, loggedOut>>

(* connect(ident) after client.connect resolved with id, up to the return *)
(* of its emit, lines 103-104                                              *)
connectResolved(i, id) ==
  /\ inflight[i].call = "connect"
  /\ CanRun(i)
  /\ LET req == inflight[i]
         m1 == [M EXCEPT !.inflight = RemoveAt(@, i), !.ident = Some(id)]
         m2 == emit(m1, "connected", m1.ident)
         m3 == Suspend(m2, Frame("connect", "connectResolved", 0, Some(req),
                                 Some(id), m2.events))
     IN Commit(m3, Obs("connectResolvedEmit", m3, "none", "running",
                       Some(req), None, Some(id), None))
  /\ UNCHANGED <<now, clockSteps, apiCalls, nextHandle, stopped, loggedOut>>

(* connect(ident) after the listeners of connected returned, lines        *)
(* 106-109: syncUserData throws at line 242 when a listener has cleared   *)
(* the identity, and connect's await of it throws a microtask later.      *)
connectAfterEmit ==
  /\ Suspended("connect")
  /\ LET req == Top.req[1]
         m1 == writeStorage([Resume(M) EXCEPT !.lastTokenRefresh = now])
         m2 == syncUserDataCall(m1, "get", "connect", FALSE, 0)
         m3 == IF m2.thrown
               THEN [m2 EXCEPT !.inflight =
                       Append(@, Request("rethrow", "connect", "", "",
                                         NoTech, req.token, FALSE, None, 0))]
               ELSE m2
     IN Commit(m3, Obs("connectResolved", m3,
                       IF m2.thrown THEN "throw" ELSE "pending", "pending",
                       Top.req, None, Top.iresp, None))
  /\ UNCHANGED <<now, clockSteps, apiCalls, nextHandle, stopped, loggedOut>>

(* client.connect rejects: connect(ident) throws at line 103. *)
connectRejected(i) ==
  /\ inflight[i].call = "connect"
  /\ CanRun(i)
  /\ LET req == inflight[i]
         m1 == [M EXCEPT !.inflight = RemoveAt(@, i), !.thrown = TRUE]
     IN Commit(m1, Obs("connectRejected", m1, "none", "throw",
                       Some(req), None, None, None))
  /\ UNCHANGED <<now, clockSteps, apiCalls, nextHandle, stopped, loggedOut>>

(* initialize() after refreshConnection resolved with id, up to the       *)
(* return of its emit, lines 74-79                                         *)
refreshResolved(i, id) ==
  /\ inflight[i].call = "refresh"
  /\ CanRun(i)
  /\ LET req == inflight[i]
         m1 == [M EXCEPT !.inflight = RemoveAt(@, i), !.ident = Some(id),
                         !.lastTokenRefresh = now]
         m2 == emit(writeStorage(m1), "connected", m1.ident)
         m3 == Suspend(m2, Frame("arm", "refreshResolved", req.h, Some(req),
                                 Some(id), m2.events))
     IN Commit(m3, Obs("refreshResolvedEmit", m3, "none", "running",
                       Some(req), None, Some(id), None))
  /\ UNCHANGED <<now, clockSteps, apiCalls, nextHandle, stopped, loggedOut>>

(* initialize() after the listeners of connected (line 79) returned: line *)
(* 82 arms the timer.                                                      *)
armAfterEmit ==
  /\ Suspended("arm")
  /\ LET m1 == armTimer(Resume(M), Top.h)
     IN Commit(m1, Obs(Top.op, m1, "none", "ok", Top.req, None, Top.iresp, None))
  /\ UNCHANGED <<now, clockSteps, apiCalls, nextHandle, stopped, loggedOut>>

(* refreshConnection rejects: initialize() throws at line 74. *)
refreshRejected(i) ==
  /\ inflight[i].call = "refresh"
  /\ CanRun(i)
  /\ LET req == inflight[i]
         m1 == [M EXCEPT !.inflight = RemoveAt(@, i), !.thrown = TRUE]
     IN Commit(m1, Obs("refreshRejected", m1, "none", "throw",
                       Some(req), None, None, None))
  /\ UNCHANGED <<now, clockSteps, apiCalls, nextHandle, stopped, loggedOut>>

(* Time passes between two tasks. *)
clock(d) ==
  /\ clockSteps < MaxClockSteps
  /\ TaskEnded
  /\ now' = now + d
  /\ clockSteps' = clockSteps + 1
  /\ obs' = Obs("clock", Idle, "none", "none", None, None, None, None)
  /\ UNCHANGED <<ident, lastRefresh, lastTokenRefresh, syncData, timer,
                 selectedAlt, storage, intervals, nextHandle, inflight, apiCalls,
                 stopped, loggedOut, stack>>

Next ==
  \/ initialize
  \/ initializeAfterEmit
  \/ shutdown
  \/ \E id \in {IdA} : connect(id)
  \/ logout
  \/ logoutAfterEmit
  \/ \E alt \in Alts : switchAlt(alt)
  \/ \E techId \in TechInputs, level \in Levels : setTechLevel(techId, level)
  \/ \E t \in intervals : tick(t)
  \/ \E i \in DOMAIN inflight, S \in ServerStates : syncResolved(i, S)
  \/ \E i \in DOMAIN inflight : syncReturned(i)
  \/ \E i \in DOMAIN inflight : syncThrew(i)
  \/ \E i \in DOMAIN inflight : syncRejected(i)
  \/ \E i \in DOMAIN inflight, id \in ServerIdentities : connectResolved(i, id)
  \/ connectAfterEmit
  \/ \E i \in DOMAIN inflight : connectRejected(i)
  \/ \E i \in DOMAIN inflight, id \in ServerIdentities : refreshResolved(i, id)
  \/ armAfterEmit
  \/ \E i \in DOMAIN inflight : refreshRejected(i)
  \/ \E d \in ClockDeltas : clock(d)

Spec == Init /\ [][Next]_vars

(* ------------------ the snapshot across a restart ---------------------- *)
SnapProfiles ==
  {EmptyProfile} \cup ServerStates
    \cup {[ver |-> 2, inSync |-> 0, techLevels |-> SavedTech]}

SnapRegistries == UNION {[D -> SnapProfiles] : D \in SUBSET Alts}

SnapTimes == {0, StartTime - 10}

(* Any connected state of the instance, nothing stored yet. *)
InitSnap ==
  /\ ident \in {Some(id) : id \in Identities}
  /\ lastRefresh \in SnapTimes
  /\ lastTokenRefresh \in SnapTimes
  /\ syncData \in {Some(reg) : reg \in SnapRegistries}
  /\ timer = None
  /\ selectedAlt = DefaultAlt
  /\ storage = None
  /\ now = StartTime
  /\ intervals = {}
  /\ nextHandle = 1
  /\ inflight = <<>>
  /\ clockSteps = 0
  /\ apiCalls = 0
  /\ obs = Obs("new", Idle, "none", "none", None, None, None, None)
  /\ stopped = FALSE
  /\ loggedOut = FALSE
  /\ stack = <<>>

(* writeStorage() on the connected state. *)
persist ==
  /\ obs.op = "new"
  /\ LET m1 == writeStorage(M)
     IN Commit(m1, Obs("writeStorage", m1, "none", "ok", None, None, None, None))
  /\ UNCHANGED <<now, clockSteps, apiCalls, nextHandle, stopped, loggedOut>>

(* The page reloads: a new instance (lines 23-33) runs readStorage(). *)
restart ==
  /\ obs.op = "writeStorage"
  /\ LET fresh == [M EXCEPT !.ident = None, !.lastRefresh = 0,
                            !.lastTokenRefresh = 0, !.syncData = None,
                            !.timer = None, !.selectedAlt = DefaultAlt,
                            !.intervals = {}, !.inflight = <<>>]
         m1 == readStorage(fresh)
     IN Commit(m1, Obs("readStorage", m1, "none", "ok", None, None, None, None))
  /\ UNCHANGED <<now, clockSteps, apiCalls, nextHandle, stopped, loggedOut>>

NextSnap == persist \/ restart

SnapSpec == InitSnap /\ [][NextSnap]_vars

(* ------------------------------ claims --------------------------------- *)

(* C1. Replace-on-response: when a sync call requested for profile P      *)
(* resolves with S, then as syncUserData ends the local state of P is S,  *)
(* getTechLevels() with P selected is S.techLevels, lastRefresh is the     *)
(* completion time, the snapshot of the resulting state is in storage and *)
(* exactly one sync event, carrying S.techLevels, was emitted.            *)
C1_ReplaceOnResponse ==
  obs.op = "syncResolved" =>
    LET req == obs.req[1]
        S == obs.sresp[1]
        syncEvents == SelectSeq(obs.events, LAMBDA e : e.name = "sync")
    IN /\ Has(syncData)
       /\ req.alt \in DOMAIN syncData[1]
       /\ syncData[1][req.alt] = S
       /\ TechLevelsOf(ident, syncData, req.alt) = Some(S.techLevels)
       /\ lastRefresh = now
       /\ Has(ident)
       /\ storage = Some(Stringify(ident[1], syncData, lastRefresh, lastTokenRefresh))
       /\ Len(syncEvents) = 1
       /\ syncEvents[1].arg = Some(S.techLevels)

(* C3, as amended. initialize() on a key that holds a non-empty text that *)
(* does not parse or has no ident returns normally, leaves the identity   *)
(* absent, both timestamps 0, the registry null and the key removed,      *)
(* emits exactly one event, a connectfailed, and issues no remote call:   *)
(* so it is as the connectfailed is emitted, and so it is as initialize   *)
(* returns, whatever the listeners of the event have called; on an absent *)
(* key or the empty string it ends in the same state and emits nothing.   *)
C3_CorruptionRecovery ==
  [][ LET absent == ~Has(storage) \/ storage[1].empty
          corrupt == /\ ~absent
                     /\ (~storage[1].parses \/ ~Truthy(Field(storage[1].val, "ident")))
          called == apiCalls' = apiCalls + 1
          cleared == /\ ident' = None
                     /\ lastRefresh' = 0
                     /\ lastTokenRefresh' = 0
                     /\ syncData' = None
                     /\ storage' = None
                     /\ obs'.calls = <<>>
          failedOnce == /\ Len(obs'.events) = 1
                        /\ obs'.events[1].name = "connectfailed"
      IN /\ (obs'.op = "initialize" /\ called /\ absent) =>
              (obs'.outer = "ok" /\ cleared /\ obs'.events = <<>>)
         /\ (obs'.op \in {"initialize", "initializeEmit"} /\ called /\ corrupt) =>
              (obs'.op = "initializeEmit" /\ cleared /\ failedOnce)
         /\ (obs'.op = "initialize" /\ ~called) =>
              (obs'.outer = "ok" /\ cleared /\ failedOnce) ]_vars

(* C3 witness: initialize() has just returned after it recovered from a   *)
(* corrupt key.                                                            *)
C3_Witness ==
  /\ obs.op = "initialize"
  /\ Len(obs.events) = 1
  /\ obs.events[1].name = "connectfailed"
  /\ obs.outer = "ok"
  /\ storage = None
  /\ Has(timer)

(* C3, as claimed. Whenever the key holds a text that fails to parse or   *)
(* lacks an identity, initialize() emits exactly one connectfailed.       *)
C3_AsClaimed ==
  [][ (/\ obs'.op \in {"initialize", "initializeEmit"}
       /\ apiCalls' = apiCalls + 1
       /\ Has(storage)
       /\ (~storage[1].parses \/ ~Truthy(Field(storage[1].val, "ident")))) =>
        /\ ident' = None
        /\ storage' = None
        /\ Len(obs'.events) = 1
        /\ obs'.events[1].name = "connectfailed" ]_vars

(* C4. setTechLevel with a techId the lookup maps to "" throws and        *)
(* changes neither the registry, the timestamps, the identity, the        *)
(* selected profile nor the stored snapshot, and issues no remote call.   *)
C4_InvalidTechRejected ==
  [][ (obs'.op = "setTechLevel" /\ getTechFromIndex(obs'.val[1]) = "") =>
        /\ obs'.outer = "throw"
        /\ obs'.calls = <<>>
        /\ UNCHANGED <<ident, syncData, lastRefresh, lastTokenRefresh,
                       selectedAlt, storage, inflight>> ]_vars

(* C4 witness: an invalid techId was rejected while connected. *)
C4_Witness ==
  /\ obs.op = "setTechLevel"
  /\ getTechFromIndex(obs.val[1]) = ""
  /\ Has(ident)
  /\ obs.outer = "throw"

(* C5. As logout() returns it has emitted disconnected, and the identity  *)
(* is absent (getUser(), getGuild(), getTechLevels() return undefined),   *)
(* both timestamps are 0, the registry is null and the key is removed.    *)
C5_LogoutClears ==
  obs.op = "logout" =>
    /\ obs.events = << Event("disconnected", None) >>
    /\ ident = None
    /\ getUser = None
    /\ getGuild = None
    /\ getTechLevels = None
    /\ lastRefresh = 0
    /\ lastTokenRefresh = 0
    /\ syncData = None
    /\ storage = None

(* C5 witness: logout() returned while a sync request is in flight. *)
C5_Witness ==
  /\ obs.op = "logout"
  /\ \E i \in DOMAIN inflight : inflight[i].call = "sync"

(* C2. Snapshot round trip: writeStorage() followed, with nothing in      *)
(* between, by readStorage() on a new instance restores the same          *)
(* identity, the same registry and both timestamps.                       *)
C2_SnapshotRoundTrip ==
  [][ obs'.op = "readStorage" =>
        /\ ident' = ident
        /\ syncData' = syncData
        /\ lastRefresh' = lastRefresh
        /\ lastTokenRefresh' = lastTokenRefresh ]_vars

(* C6. While connected, switchAlt(name) for a name the registry lacks     *)
(* creates the profile as {ver 1, inSync 1, techLevels {}} before it      *)
(* returns, so that getTechLevels() is an empty mapping, and issues       *)
(* exactly one remote call, a sync with mode "get" for that name.         *)
C6_SwitchAltCreatesProfile ==
  [][ (/\ obs'.op = "switchAlt"
       /\ Has(ident)
       /\ (~Has(syncData) \/ selectedAlt' \notin DOMAIN syncData[1])) =>
        /\ obs'.outer = "ok"
        /\ Has(syncData')
        /\ selectedAlt' \in DOMAIN syncData'[1]
        /\ syncData'[1][selectedAlt'] = [ver |-> 1, inSync |-> 1, techLevels |-> NoTech]
        /\ getTechLevels' = Some(NoTech)
        /\ Len(obs'.calls) = 1
        /\ obs'.calls[1].call = "sync"
        /\ obs'.calls[1].mode = "get"
        /\ obs'.calls[1].alt = selectedAlt'
        /\ inflight' = Append(inflight, obs'.calls[1]) ]_vars

(* C7. A tick with an identity active and more than REFRESH_MS since      *)
(* lastRefresh issues exactly one remote call, a sync with mode "sync"    *)
(* for the selected profile carrying its local techLevels; when that      *)
(* sync succeeds a sync event carrying the returned techLevels is         *)
(* emitted; any other tick issues no call and changes no state.           *)
C7_BackgroundTick ==
  [][ LET fire == Has(ident) /\ now - lastRefresh > REFRESH_MS
          local == TechLevelsOf(ident, syncData, selectedAlt)
      IN /\ (obs'.op = "tick" /\ fire) =>
              /\ Len(obs'.calls) = 1
              /\ obs'.calls[1].call = "sync"
              /\ obs'.calls[1].mode = "sync"
              /\ obs'.calls[1].alt = selectedAlt
              /\ obs'.calls[1].sent = Coalesce(local, NoTech)
         /\ (obs'.op = "tick" /\ ~fire) =>
              /\ obs'.calls = <<>>
              /\ UNCHANGED <<ident, syncData, lastRefresh, lastTokenRefresh,
                             selectedAlt, storage, inflight, timer>>
         /\ (/\ obs'.op = "syncResolved"
             /\ obs'.req[1].origin = "tick"
             /\ obs'.result = "ok") =>
              obs'.events = << Event("sync", Some(obs'.sresp[1].techLevels)) >> ]_vars

(* C8. initialize() with a recovered identity issues a "sync" carrying    *)
(* the stored entries when the snapshot stored for the selected profile   *)
(* has tech-level entries, and a "get" when it has none; after a "get"    *)
(* it refreshes the token, after a "sync" it does not.                    *)
C8_InitializeMode ==
  [][ /\ (obs'.op = "initialize" /\ Has(ident')) =>
           LET stored == Coalesce(Field(storage[1].val, "userData"), EmptyRegistry)
               entries == IF selectedAlt \in DOMAIN stored
                          THEN stored[selectedAlt].techLevels ELSE NoTech
           IN /\ Len(obs'.calls) = 1
              /\ obs'.calls[1].call = "sync"
              /\ obs'.calls[1].mode = (IF DOMAIN entries # {} THEN "sync" ELSE "get")
              /\ obs'.calls[1].sent = entries
      /\ (/\ obs'.op = "syncReturned"
          /\ obs'.req[1].origin = "initialize"
          /\ Has(ident)) =>
           IF ~obs'.req[1].hasData
           THEN Len(obs'.calls) = 1 /\ obs'.calls[1].call = "refresh"
           ELSE obs'.calls = <<>> ]_vars

(* C9. When the awaited sync call rejects, syncUserData throws, emits     *)
(* nothing and leaves the identity, the registry, both timestamps and     *)
(* the stored snapshot as they are: a level set by setTechLevel before    *)
(* the call stays in memory. The method that awaits it is queued to       *)
(* resume and, resumed, throws in turn and changes nothing either.        *)
C9_SyncFailureChangesNothing ==
  [][ /\ obs'.op = "syncRejected" =>
           /\ obs'.result = "throw"
           /\ obs'.events = <<>>
           /\ obs'.calls = <<>>
           /\ UNCHANGED <<ident, syncData, lastRefresh, lastTokenRefresh, storage>>
           /\ IF obs'.req[1].origin = "switchAlt"
              THEN Len(inflight') = Len(inflight) - 1
              ELSE /\ obs'.outer = "pending"
                   /\ Len(inflight') = Len(inflight)
                   /\ inflight'[Len(inflight')].call = "rethrow"
                   /\ inflight'[Len(inflight')].origin = obs'.req[1].origin
      /\ obs'.op = "syncThrew" =>
           /\ obs'.outer = "throw"
           /\ obs'.events = <<>>
           /\ obs'.calls = <<>>
           /\ UNCHANGED <<ident, syncData, lastRefresh, lastTokenRefresh,
                          storage, timer>> ]_vars

(* C9 witness: the sync of a setTechLevel(1, 3) was rejected,             *)
(* setTechLevel has thrown and level 3 is still what getTechLevels()      *)
(* reports for tech 1.                                                    *)
C9_Witness ==
  /\ obs.op = "syncThrew"
  /\ obs.req[1].origin = "setTechLevel"
  /\ obs.outer = "throw"
  /\ Has(getTechLevels)
  /\ 1 \in DOMAIN getTechLevels[1]
  /\ getTechLevels[1][1].level = 3

(* C10. Every tick with an identity active and more than TOKEN_STALE_MS   *)
(* since lastTokenRefresh calls refreshConnection with the current token. *)
C10_TokenStaleness ==
  [][ (/\ obs'.op = "tick"
       /\ Has(ident)
       /\ now - lastTokenRefresh > TOKEN_STALE_MS) =>
        \E i \in DOMAIN obs'.calls :
          /\ obs'.calls[i].call = "refresh"
          /\ obs'.calls[i].token = ident[1].token ]_vars

(* C11. When the remote connect exchange resolves with id, connect makes  *)
(* id the active identity and emits exactly one connected carrying id;    *)
(* when the listeners have returned it stamps lastTokenRefresh with the   *)
(* time of the exchange, stores a snapshot holding id and issues exactly  *)
(* one sync, a "get" for the selected profile, on a registry and a        *)
(* lastRefresh that hold nothing older than the call; when that sync      *)
(* resolves too, connect returns the active identity, which is id and is  *)
(* the identity stored, and has emitted no further connected and issued   *)
(* no further call.                                                       *)
C11_ConnectSuccess ==
  [][ /\ obs'.op = "connectResolvedEmit" =>
           /\ ident' = obs'.iresp
           /\ obs'.events = << Event("connected", obs'.iresp) >>
           /\ obs'.calls = <<>>
      /\ obs'.op = "connectResolved" =>
           LET id == obs'.iresp[1] IN
           /\ ident' = Some(id)
           /\ lastTokenRefresh' = now
           /\ Has(storage')
           /\ Field(storage'[1].val, "ident") = Some(id)
           /\ Field(storage'[1].val, "tokenRefresh") = Some(now)
           /\ obs'.events = << Event("connected", Some(id)) >>
           /\ Len(obs'.calls) = 1
           /\ obs'.calls[1].call = "sync"
           /\ obs'.calls[1].mode = "get"
           /\ obs'.calls[1].alt = selectedAlt
           /\ obs'.calls[1].token = id.token
           /\ syncData' = Some(selectedAlt :> EmptyProfile)
           /\ lastRefresh' = 0
      /\ (obs'.op = "syncResolved" /\ obs'.req[1].origin = "connect") =>
           /\ obs'.result = "ok"
           /\ obs'.calls = <<>>
           /\ \A i \in DOMAIN obs'.events : obs'.events[i].name = "sync"
      /\ (obs'.op = "syncReturned" /\ obs'.req[1].origin = "connect") =>
           /\ obs'.outer = "ok"
           /\ Has(ident')
           /\ ident'[1].token = obs'.req[1].token
           /\ obs'.val = Some(ident')
           /\ Has(storage')
           /\ Field(storage'[1].val, "ident") = ident'
           /\ obs'.calls = <<>>
           /\ obs'.events = <<>> ]_vars

(* C12. No lost later response: when the response to a sync request has   *)
(* been applied and the next step applies the response to a request for   *)
(* the same profile that was issued earlier and was pending together      *)
(* with it, the profile's local state and its stored snapshot still equal *)
(* the response to the request issued later.                              *)
C12_NoLostLaterResponse ==
  [][ (/\ obs.op = "syncResolved"
       /\ obs'.op = "syncResolved"
       /\ obs'.req[1].alt = obs.req[1].alt
       /\ obs'.req[1].pos < obs.req[1].pos) =>
        LET alt == obs.req[1].alt
            later == obs.sresp[1]
        IN /\ Has(syncData')
           /\ alt \in DOMAIN syncData'[1]
           /\ syncData'[1][alt] = later
           /\ Has(storage')
           /\ Field(storage'[1].val, "userData") = Some(alt :> later @@ syncData'[1]) ]_vars

(* C13. No silently dropped failure: whenever a sync started by           *)
(* switchAlt (also while disconnected) or by a tick fails, either the     *)
(* switchAlt invocation fails to its caller or a connectfailed event is   *)
(* emitted; a tick has no caller in the front end.                        *)
C13_NoSilentlyDroppedFailure ==
  [][ LET viaSwitchAlt ==
            \/ obs'.op = "switchAlt"
            \/ /\ obs'.op \in {"syncResolved", "syncRejected"}
               /\ obs'.req[1].origin = "switchAlt"
          viaTick ==
            /\ obs'.op \in {"syncResolved", "syncRejected"}
            /\ obs'.req[1].origin = "tick"
      IN ((viaSwitchAlt \/ viaTick) /\ obs'.result = "throw") =>
           \/ viaSwitchAlt /\ obs'.outer = "throw"
           \/ \E i \in DOMAIN obs'.events : obs'.events[i].name = "connectfailed" ]_vars

(* The key holds no snapshot, or the snapshot of the identity (id) that  *)
(* is active.                                                             *)
StoredIsActive(st, id) ==
  Has(st) => (Has(id) /\ st[1].parses /\ Field(st[1].val, "ident") = id)

(* C14. A disconnected session is never persisted: every step that        *)
(* changes the key to a snapshot runs with an identity active and stores  *)
(* that identity; when initialize, connect or logout has run the key is   *)
(* absent or holds the active identity, and every later step (connect,    *)
(* logout, completions of pending calls, ticks) keeps it so: in every     *)
(* state from then on a snapshot in the key is the snapshot of the        *)
(* identity that is active.                                                *)
C14_DisconnectedNeverPersisted ==
  [][ /\ (storage' # storage /\ Has(storage')) =>
           (Has(ident') /\ Field(storage'[1].val, "ident") = ident')
      /\ obs'.op \in {"initialize", "connect", "logout"} =>
           StoredIsActive(storage', ident')
      /\ StoredIsActive(storage, ident) => StoredIsActive(storage', ident') ]_vars

(* C15. Shutdown disarms the refresh loop: once shutdown() has returned   *)
(* and until initialize() is called again no tick runs; shutdown() itself *)
(* leaves the pending calls pending.                                      *)
C15_ShutdownDisarms ==
  [][ /\ stopped => obs'.op # "tick"
      /\ obs'.op = "shutdown" => inflight' = inflight ]_vars

(* C16. connect clears before it exchanges: as connect reaches its await  *)
(* the identity is absent, the registry empty, both timestamps 0 and the  *)
(* key removed, and the only call issued is the connect exchange; when    *)
(* the exchange fails connect throws, emits nothing, issues no sync and   *)
(* the system is disconnected: identity absent, registry empty, both      *)
(* timestamps 0, key absent.                                              *)
C16_ConnectClearsFirst ==
  [][ /\ obs'.op = "connect" =>
           /\ ident' = None
           /\ syncData' = None
           /\ lastRefresh' = 0
           /\ lastTokenRefresh' = 0
           /\ storage' = None
           /\ Len(obs'.calls) = 1
           /\ obs'.calls[1].call = "connect"
      /\ obs'.op = "connectRejected" =>
           /\ obs'.outer = "throw"
           /\ obs'.events = <<>>
           /\ obs'.calls = <<>>
           /\ ident' = None
           /\ syncData' = None
           /\ lastRefresh' = 0
           /\ lastTokenRefresh' = 0
           /\ storage' = None ]_vars

(* C17. A sync response is applied only to the profile it was requested   *)
(* for: every resolved sync leaves each profile other than the requested  *)
(* one as it was, present or missing, whichever profile is selected by    *)
(* then; and the response to a request for P whose registry is still the  *)
(* live one becomes the state of P also when switchAlt has selected       *)
(* another profile meanwhile.                                             *)
C17_ResponseOnlyToRequested ==
  [][ obs'.op = "syncResolved" =>
        LET P == obs'.req[1].alt
            S == obs'.sresp[1]
            before == Coalesce(syncData, EmptyRegistry)
            after == Coalesce(syncData', EmptyRegistry)
        IN /\ Has(syncData') = Has(syncData)
           /\ \A a \in Alts \ {P} :
                /\ (a \in DOMAIN after) = (a \in DOMAIN before)
                /\ a \in DOMAIN before => after[a] = before[a]
           /\ obs'.req[1].attached =>
                (P \in DOMAIN after /\ after[P] = S) ]_vars

(* C17 witness: the response to a sync for "default" arrived after        *)
(* switchAlt selected "alt1"; "default" holds the response and "alt1" is  *)
(* still the new empty profile.                                           *)
C17_Witness ==
  /\ obs.op = "syncResolved"
  /\ obs.req[1].alt = "default"
  /\ obs.req[1].attached
  /\ selectedAlt = "alt1"
  /\ Has(syncData)
  /\ DOMAIN syncData[1] = {"default", "alt1"}
  /\ syncData[1]["default"] = obs.sresp[1]
  /\ syncData[1]["alt1"] = EmptyProfile

(* C18. Cleared means cleared: in every state with no identity active the *)
(* registry is empty and lastRefresh and lastTokenRefresh are both 0,     *)
(* also after a sync that was pending at logout or at connect's clear     *)
(* has completed.                                                         *)
C18_ClearedMeansCleared ==
  ~Has(ident) => (syncData = None /\ lastRefresh = 0 /\ lastTokenRefresh = 0)

(* C19. Logout is final: once logout() has returned and as long as        *)
(* neither connect() nor initialize() is called, the identity and the     *)
(* key stay absent, whichever pending connect exchange, token refresh or  *)
(* sync completes meanwhile.                                              *)
C19_LogoutIsFinal ==
  loggedOut => (ident = None /\ storage = None)

(* C20. The timer is armed whenever initialize() finishes: as it returns  *)
(* with no identity recovered or after its initial sync (and token        *)
(* refresh) succeeded, and as it throws because the initial sync or the   *)
(* token refresh failed, the interval it set is armed and is the one      *)
(* this.timer holds.                                                      *)
C20_TimerArmedAfterInitialize ==
  [][ LET called == obs'.op = "initialize" /\ apiCalls' = apiCalls + 1
          afterEmit == obs'.op = "initialize" /\ apiCalls' = apiCalls
          resumed == /\ obs'.op \in {"syncReturned", "syncThrew",
                                     "refreshResolved", "refreshRejected"}
                     /\ obs'.req[1].origin = "initialize"
          h == IF called THEN nextHandle
               ELSE IF afterEmit THEN Top.h ELSE obs'.req[1].h
      IN ((called \/ afterEmit \/ resumed) /\ obs'.outer \in {"ok", "throw"}) =>
           /\ timer' = Some(h)
           /\ \E t \in intervals' : t.id = h ]_vars

====
